---- MODULE Spec2Model ----
(***************************************************************************)
(* Shadow, the HTTP/1.1 core of iiPythonx/ghost (src/shadow.py), and the   *)
(* Ghost handler's use of it (src/ghost.py).                               *)
(*                                                                         *)
(* bytes and str values are TLA+ strings; Python's None is the empty       *)
(* tuple and a present optional value v is the one-element tuple <<v>>.    *)
(* A dict is the sequence of its <<key, value>> items in insertion order.  *)
(* One action is one stretch of handle_connection between two awaits.      *)
(***************************************************************************)
EXTENDS Integers, Sequences, FiniteSets, TLC

(***************************************************************************)
(* Bounds of the model.                                                    *)
(***************************************************************************)
\* number of chunks the peer sends on one connection
MaxSends == 4
\* number of bytes that may wait unread in the stream buffer when the peer sends
MaxPending == 2
\* number of lines given to one Request when consume is run on its own
MaxLines == 3
\* number of requests each of the concurrent connections sends
MaxRequests == 2

(***************************************************************************)
(* Python values.                                                          *)
(***************************************************************************)
None == <<>>

Some(v) == <<v>>

Ch(s, i) == SubSeq(s, i, i)

AllIn(s, S) == \A i \in 1..Len(s) : Ch(s, i) \in S

\* bytes.find: index of the first occurrence of the character c, 0 when absent
IndexOf(s, c) ==
    IF \E i \in 1..Len(s) : Ch(s, i) = c
    THEN CHOOSE i \in 1..Len(s) : Ch(s, i) = c /\ \A j \in 1..(i - 1) : Ch(s, j) # c
    ELSE 0

UPPER == <<"A","B","C","D","E","F","G","H","I","J","K","L","M",
           "N","O","P","Q","R","S","T","U","V","W","X","Y","Z">>

LOWER == <<"a","b","c","d","e","f","g","h","i","j","k","l","m",
           "n","o","p","q","r","s","t","u","v","w","x","y","z">>

DIGITS == <<"0","1","2","3","4","5","6","7","8","9">>

Range(f) == {f[i] : i \in DOMAIN f}

ALPHA == Range(UPPER) \cup Range(LOWER)

DIGIT == Range(DIGITS)

\* bytes.lower / str.lower on one character
lower_char(c) ==
    IF c \in Range(UPPER) THEN LOWER[CHOOSE i \in 1..26 : UPPER[i] = c] ELSE c

RECURSIVE lower(_)
lower(s) == IF s = "" THEN "" ELSE lower_char(Head(s)) \o lower(Tail(s))

\* str(n) for a natural number
RECURSIVE str(_)
str(n) == IF n < 10 THEN DIGITS[n + 1] ELSE str(n \div 10) \o DIGITS[(n % 10) + 1]

\* str.isnumeric on text decoded from printable ASCII
isnumeric(s) == s # "" /\ AllIn(s, DIGIT)

\* int(s) for a string of decimal digits
RECURSIVE int(_)
int(s) ==
    IF s = "" THEN 0
    ELSE 10 * int(SubSeq(s, 1, Len(s) - 1))
         + ((CHOOSE i \in 1..10 : DIGITS[i] = Ch(s, Len(s))) - 1)

\* dict.get
RECURSIVE DictGet(_, _)
DictGet(d, k) ==
    IF d = <<>> THEN None
    ELSE IF Head(d)[1] = k THEN Some(Head(d)[2]) ELSE DictGet(Tail(d), k)

\* a variant that keeps the value a key already has
DictSet_keeping_first(d, k, v) ==
    IF \E i \in 1..Len(d) : d[i][1] = k THEN d ELSE Append(d, <<k, v>>)

\* d[k] = v: an existing key keeps its place, a new key goes last
DictSet(d, k, v) ==
    IF \E i \in 1..Len(d) : d[i][1] = k
    THEN [i \in 1..Len(d) |-> IF d[i][1] = k THEN <<k, v>> ELSE d[i]]
    ELSE Append(d, <<k, v>>)

\* d | e
RECURSIVE DictMerge(_, _)
DictMerge(d, e) ==
    IF e = <<>> THEN d ELSE DictMerge(DictSet(d, Head(e)[1], Head(e)[2]), Tail(e))

\* b"\r\n".join(parts)
RECURSIVE Join(_)
Join(parts) ==
    IF parts = <<>> THEN ""
    ELSE IF Len(parts) = 1 THEN parts[1]
    ELSE parts[1] \o "\r\n" \o Join(Tail(parts))

(***************************************************************************)
(* The grammar (shadow.py, "Initialization").                              *)
(***************************************************************************)
__version__ == "shdw/1.1.1"

UNRESERVED == ALPHA \cup DIGIT \cup {"-", ".", "_", "~"}

SUB_DELIMS == {"!", "$", "&", "'", "(", ")", "*", "+", ",", ";", "="}

PCHAR == UNRESERVED \cup SUB_DELIMS \cup {":", "@", "%"}

QUERY_CHARS == PCHAR \cup {"/", "?"}

\* the characters of the class [\x20-\x7E] (all but the grave accent, which a
\* TLA+ string cannot hold; no line of the model contains one)
PRINTABLE ==
    ALPHA \cup DIGIT \cup
    {" ", "!", "\"", "#", "$", "%", "&", "'", "(", ")", "*", "+", ",", "-", ".",
     "/", ":", ";", "<", "=", ">", "?", "@", "[", "\\", "]", "^", "_", "{",
     "|", "}", "~"}

\* the characters of the class \s of a bytes pattern (all but the vertical
\* tab, which a TLA+ string cannot hold)
WHITESPACE == {" ", "\t", "\n", "\r", "\f"}

\* /[PCHAR/]*(?:\?[QUERY_CHARS]*)?  matched against the whole of t
REQUEST_TARGET(t) ==
    LET q == IndexOf(t, "?") IN
    /\ Len(t) >= 1
    /\ Ch(t, 1) = "/"
    /\ IF q = 0
       THEN AllIn(SubSeq(t, 2, Len(t)), PCHAR \cup {"/"})
       ELSE /\ AllIn(SubSeq(t, 2, q - 1), PCHAR \cup {"/"})
            /\ AllIn(SubSeq(t, q + 1, Len(t)), QUERY_CHARS)

\* the TOKEN class followed by +, matched against the whole of t (the grave
\* accent is left out as in PRINTABLE)
TOKEN(t) ==
    /\ t # ""
    /\ AllIn(t, ALPHA \cup DIGIT \cup
                {"!", "#", "$", "%", "&", "'", "*", "+", "-", ".", "^", "_", "|", "~"})

\* \d+(?:\.\d+)?  matched against the whole of v
VERSION(v) ==
    LET dot == IndexOf(v, ".") IN
    IF dot = 0 THEN isnumeric(v)
    ELSE isnumeric(SubSeq(v, 1, dot - 1)) /\ isnumeric(SubSeq(v, dot + 1, Len(v)))

\* the longest prefix of s made of characters of S
RECURSIVE Span(_, _)
Span(s, S) ==
    IF s = "" \/ Head(s) \notin S THEN "" ELSE Head(s) \o Span(Tail(s), S)

\* the greedy match of [\x20-\x7E]* at the start of s
FIELD_VALUE(s) == Span(s, PRINTABLE)

\* HTTP_REQUEST_LINE.match(line): None, or the groups (method, target,
\* version).  Neither a token nor a target nor a version holds a space, so
\* the two separating spaces are the first two spaces of the line.
HTTP_REQUEST_LINE(line) ==
    LET sp1    == IndexOf(line, " ")
        method == SubSeq(line, 1, sp1 - 1)
        rest   == SubSeq(line, sp1 + 1, Len(line))
        sp2    == IndexOf(rest, " ")
        target == SubSeq(rest, 1, sp2 - 1)
        tail   == SubSeq(rest, sp2 + 1, Len(rest))
        vers   == SubSeq(tail, 6, Len(tail))
    IN  IF /\ sp1 > 0
           /\ sp2 > 0
           /\ TOKEN(method)
           /\ REQUEST_TARGET(target)
           /\ Len(tail) > 5
           /\ SubSeq(tail, 1, 5) = "HTTP/"
           /\ VERSION(vers)
        THEN <<method, target, vers>>
        ELSE None

\* HTTP_HEADER_LINE.match(line): None, or the groups (name, value).  The
\* name ends at the first colon (a token holds none); \s* then takes all the
\* leading white space, the value group greedily takes every printable
\* character that follows (spaces included) and the closing \s* must reach
\* the end of the line.
HTTP_HEADER_LINE(line) ==
    LET colon == IndexOf(line, ":")
        name  == SubSeq(line, 1, colon - 1)
        rest  == SubSeq(line, colon + 1, Len(line))
        lead  == Span(rest, WHITESPACE)
        after == SubSeq(rest, Len(lead) + 1, Len(rest))
        value == FIELD_VALUE(after)
        trail == SubSeq(after, Len(value) + 1, Len(after))
    IN  IF colon > 0 /\ TOKEN(name) /\ AllIn(trail, WHITESPACE)
        THEN <<name, value>>
        ELSE None

(***************************************************************************)
(* Intermediaries, exceptions and the Request object.                      *)
(***************************************************************************)
Declaration(method, uri, version) ==
    [method |-> method, uri |-> uri, version |-> version]

Response(status_code, body, headers) ==
    [status_code |-> status_code, body |-> body, headers |-> headers]

HTTPException(status_code, message) ==
    [status_code |-> status_code, message |-> message]

\* Request.__init__ (the source address plays no part in the protocol)
Request ==
    [declaration |-> Declaration(None, None, None), headers |-> <<>>, _body |-> ""]

\* what formatting a bytes value into an f-string yields, for bytes without
\* quote, backslash or control characters
bytes_repr(b) == "b'" \o b \o "'"

\* a variant that tries the request-line pattern before the HTTP/2 preface
consume_pattern_first(request, line) ==
    LET processed_line == SubSeq(line, 1, Len(line) - 2)
        declaration    == HTTP_REQUEST_LINE(processed_line)
        header_data    == HTTP_HEADER_LINE(processed_line)
    IN  IF request.declaration.method = None
        THEN IF declaration = None
             THEN [request |-> request,
                   exc |-> Some(HTTPException(400, "Malformed HTTP declaration was sent."))]
             ELSE IF processed_line = "PRI * HTTP/2.0"
             THEN [request |-> request,
                   exc |-> Some(HTTPException(505, "Shadow does not support HTTP/2."))]
             ELSE [request |-> [request EXCEPT !.declaration =
                                   Declaration(Some(declaration[1]), Some(declaration[2]),
                                               Some(declaration[3]))],
                   exc |-> None]
        ELSE IF header_data = None
             THEN [request |-> request,
                   exc |-> Some(HTTPException(400,
                              "Malformed HTTP header line was sent: "
                                  \o bytes_repr(processed_line)))]
             ELSE [request |-> [request EXCEPT !.headers =
                                   DictSet(@, lower(header_data[1]), header_data[2])],
                   exc |-> None]

\* a variant that takes any line shaped like a request line as a declaration
consume_redeclaring(request, line) ==
    LET processed_line == SubSeq(line, 1, Len(line) - 2)
        declaration    == HTTP_REQUEST_LINE(processed_line)
        header_data    == HTTP_HEADER_LINE(processed_line)
    IN  IF request.declaration.method = None \/ declaration # None
        THEN IF processed_line = "PRI * HTTP/2.0"
             THEN [request |-> request,
                   exc |-> Some(HTTPException(505, "Shadow does not support HTTP/2."))]
             ELSE IF declaration = None
             THEN [request |-> request,
                   exc |-> Some(HTTPException(400, "Malformed HTTP declaration was sent."))]
             ELSE [request |-> [request EXCEPT !.declaration =
                                   Declaration(Some(declaration[1]), Some(declaration[2]),
                                               Some(declaration[3]))],
                   exc |-> None]
        ELSE IF header_data = None
             THEN [request |-> request,
                   exc |-> Some(HTTPException(400,
                              "Malformed HTTP header line was sent: "
                                  \o bytes_repr(processed_line)))]
             ELSE [request |-> [request EXCEPT !.headers =
                                   DictSet(@, lower(header_data[1]), header_data[2])],
                   exc |-> None]

\* Request.consume: the request after the call and the exception raised
\* (None when the call returns)
consume(request, line) ==
    LET processed_line == SubSeq(line, 1, Len(line) - 2)
        declaration    == HTTP_REQUEST_LINE(processed_line)
        header_data    == HTTP_HEADER_LINE(processed_line)
    IN  IF request.declaration.method = None
        THEN IF processed_line = "PRI * HTTP/2.0"
             THEN [request |-> request,
                   exc |-> Some(HTTPException(505, "Shadow does not support HTTP/2."))]
             ELSE IF declaration = None
             THEN [request |-> request,
                   exc |-> Some(HTTPException(400, "Malformed HTTP declaration was sent."))]
             ELSE [request |-> [request EXCEPT !.declaration =
                                   Declaration(Some(declaration[1]), Some(declaration[2]),
                                               Some(declaration[3]))],
                   exc |-> None]
        ELSE IF header_data = None
             THEN [request |-> request,
                   exc |-> Some(HTTPException(400,
                              "Malformed HTTP header line was sent: "
                                  \o bytes_repr(processed_line)))]
             ELSE [request |-> [request EXCEPT !.headers =
                                   DictSet(@, lower(header_data[1]), header_data[2])],
                   exc |-> None]

(***************************************************************************)
(* Shadow: the error response and the serializer.                          *)
(***************************************************************************)
\* a variant whose response does not ask for the connection to be closed
error_keep_alive(status_code, message) ==
    Response(status_code, message,
             << <<"content-type", "text/plain">>, <<"connection", "keep-alive">> >>)

\* Shadow.error
error(status_code, message) ==
    Response(status_code, message,
             << <<"content-type", "text/plain">>, <<"connection", "close">> >>)

\* the header lines dump_response puts between the status line and the body
header_lines(response) ==
    LET items == DictMerge(response.headers,
                           << <<"content-length", str(Len(response.body))>>,
                              <<"server", __version__>> >>)
    IN  [i \in 1..Len(items) |-> lower(items[i][1]) \o ": " \o items[i][2]]

\* Shadow.dump_response
dump_response(response) ==
    Join(<<"HTTP/1.1 " \o str(response.status_code)>>
         \o header_lines(response)
         \o <<"\r\n" \o response.body>>)

(***************************************************************************)
(* The peer and the application handler: the inputs of a connection.       *)
(***************************************************************************)
\* what the peer may send in one piece: single lines, well formed or not,
\* pieces of a body, and two whole requests sent back to back
Chunks ==
    {"GET / HTTP/1.1\r\n",
     "GET /\r\n",
     "PRI * HTTP/2.0\r\n",
     "connection: keep-alive\r\n",
     "Connection: close\r\n",
     "connection: upgrade\r\n",
     "content-length: 3\r\n",
     "content-length: x\r\n",
     "\r\n",
     "ab",
     "c",
     "GET / HTTP/1.1\r\nconnection: keep-alive\r\n\r\nGET / HTTP/1.1\r\n\r\n"}

\* what on_request may return: Ghost's own responses (the page cut short),
\* responses that set the headers the core owns, and None
HandlerResults ==
    {None,
     Some(Response(200, "<!doctype html>", << <<"content-type", "text/html">> >>)),
     Some(Response(204, "", <<>>)),
     Some(Response(200, "abc", << <<"Content-Length", "99">> >>)),
     Some(Response(200, "", << <<"Connection", "close">>, <<"Server", "x">> >>)),
     Some(Response(200, "hi", << <<"connection", "keep-alive">>,
                                 <<"content-length", "0">>, <<"server", "x">> >>))}

(***************************************************************************)
(* State of one accepted connection.                                       *)
(***************************************************************************)
VARIABLES
    pc,         \* the await handle_connection stands at, or "done"
    request,    \* the Request of the current iteration
    keepalive,  \* the local of that name
    want,       \* int(content_length) of a pending read
    inbuf,      \* read_stream: bytes received and not yet read
    eof,        \* read_stream: the peer has closed its sending side
    reset,      \* the connection was lost to a peer reset
    written,    \* the bytes of every write_stream.write, in order
    drained,    \* how many of them a drain has flushed
    closed,     \* write_stream.close() was called
    raised,     \* the exception handle_connection let escape, or None
    exc,        \* the HTTPException caught by the connection loop, or None
    calls,      \* the requests on_request was called with, in order
    replies,    \* what on_request returned for them, in order
    iter,       \* number of the current iteration of the connection loop
    nread,      \* number of reads (lines, bodies) that returned data
    sends,      \* number of chunks the peer has sent
    fed,        \* the lines given to request.consume in this iteration
    BLANK_RESPONSE, \* Ghost's module-level Response, shared by all connections
    conn        \* the state of each of the connections served concurrently

vars == <<pc, request, keepalive, want, inbuf, eof, reset, written, drained,
          closed, raised, exc, calls, replies, iter, nread, sends, fed,
          BLANK_RESPONSE, conn>>

\* the connections served concurrently
Connections == {1, 2}

\* the part of the state the synchronous code of the loop works on
Cur ==
    [pc |-> pc, request |-> request, keepalive |-> keepalive, want |-> want,
     written |-> written, closed |-> closed, exc |-> exc, calls |-> calls]

Become(o) ==
    /\ pc' = o.pc
    /\ request' = o.request
    /\ keepalive' = o.keepalive
    /\ want' = o.want
    /\ written' = o.written
    /\ closed' = o.closed
    /\ exc' = o.exc
    /\ calls' = o.calls

Init ==
    /\ pc = "readline"
    /\ request = Request
    /\ keepalive = FALSE
    /\ want = 0
    /\ inbuf = ""
    /\ eof = FALSE
    /\ reset = FALSE
    /\ written = <<>>
    /\ drained = 0
    /\ closed = FALSE
    /\ raised = None
    /\ exc = None
    /\ calls = <<>>
    /\ replies = <<>>
    /\ iter = 1
    /\ nread = 0
    /\ sends = 0
    /\ fed = <<>>
    /\ BLANK_RESPONSE = Response(204, "", <<>>)
    /\ conn = [c \in Connections |->
                 [pc |-> "readline", request |-> Request, keepalive |-> FALSE,
                  want |-> 0, written |-> <<>>, closed |-> FALSE, exc |-> None,
                  calls |-> <<>>, replies |-> <<>>]]

(***************************************************************************)
(* The synchronous stretches of Shadow.handle_connection.                  *)
(***************************************************************************)
\* a variant that keeps the connection open unless "close" was sent
keepalive_unless_close(headers) == DictGet(headers, "connection") # Some("close")

\* a variant that keeps the connection open whenever the header is present
keepalive_if_present(headers) == DictGet(headers, "connection") # None

\* keepalive = request.headers.get(b"connection") == b"keep-alive"
keepalive_of(headers) == DictGet(headers, "connection") = Some("keep-alive")

\* a variant that waits for the close without asking for it
cleanup_without_close(o) == [o EXCEPT !.pc = "wait_closed"]

\* "Clean up": write_stream.close(), then the await of wait_closed
cleanup(o) == [o EXCEPT !.closed = TRUE, !.pc = "wait_closed"]

\* except HTTPException as k: the error response is written, then drained
except_http(o, k) ==
    [o EXCEPT !.exc = Some(k),
              !.written = Append(@, dump_response(error(k.status_code, k.message))),
              !.pc = "err_drain"]

\* a variant that goes on without the at_eof test
after_headers_without_eof_test(o, at_eof) ==
    LET content_length == DictGet(o.request.headers, "content-length")
        k == [o EXCEPT !.keepalive = keepalive_of(o.request.headers)]
    IN  IF content_length # None
        THEN IF ~isnumeric(content_length[1])
             THEN except_http(k, HTTPException(400, "Invalid content length provided."))
             ELSE [k EXCEPT !.want = int(content_length[1]), !.pc = "readbody"]
        ELSE [k EXCEPT !.calls = Append(@, k.request), !.pc = "handler"]

\* from the end of the line loop to the next await: the at_eof test, the
\* keep-alive decision and the content-length check
after_headers(o, at_eof) ==
    LET content_length == DictGet(o.request.headers, "content-length")
        k == [o EXCEPT !.keepalive = keepalive_of(o.request.headers)]
    IN  IF at_eof THEN cleanup(o)
        ELSE IF content_length # None
        THEN IF ~isnumeric(content_length[1])
             THEN except_http(k, HTTPException(400, "Invalid content length provided."))
             ELSE [k EXCEPT !.want = int(content_length[1]), !.pc = "readbody"]
        ELSE [k EXCEPT !.calls = Append(@, k.request), !.pc = "handler"]

\* one item of "async for item in read_stream" and what the loop does with it
after_item(o, item, at_eof) ==
    LET r == consume(o.request, item) IN
    IF item = "" \/ item = "\r\n" THEN after_headers(o, at_eof)
    ELSE IF r.exc # None THEN except_http(o, r.exc[1])
    ELSE [o EXCEPT !.request = r.request]

\* a variant that starts reading the next request without draining
after_response_without_drain(o) ==
    IF ~o.keepalive THEN cleanup(o) ELSE [o EXCEPT !.pc = "readline"]

\* where the loop goes once the response is written: "if not keepalive: break"
after_response(o) == IF ~o.keepalive THEN cleanup(o) ELSE [o EXCEPT !.pc = "drain"]

\* a variant that leaves a connection header the Response already has
with_connection_if_absent(response, keep) ==
    IF DictGet(response.headers, "connection") # None THEN response
    ELSE [response EXCEPT !.headers =
             Append(@, <<"connection", IF keep THEN "keep-alive" ELSE "close">>)]

\* response.headers |= {"connection": ...}: the Response object after the
\* update of its headers in place
with_connection(response, keep) ==
    [response EXCEPT !.headers =
        DictMerge(@, << <<"connection", IF keep THEN "keep-alive" ELSE "close">> >>)]

\* the response is given the connection header and written, unless it is None
write_response(o, response) ==
    IF response = None THEN o
    ELSE [o EXCEPT !.written =
             Append(@, dump_response(with_connection(response[1], o.keepalive)))]

\* StreamReader.read(n): at most n of the bytes at hand
read(buf, n) == SubSeq(buf, 1, IF n < Len(buf) THEN n ELSE Len(buf))

(***************************************************************************)
(* Actions: the peer.                                                      *)
(***************************************************************************)
PeerSend ==
    /\ sends < MaxSends
    /\ UNCHANGED <<BLANK_RESPONSE, conn>>
    /\ ~eof /\ ~reset /\ ~closed /\ pc # "done"
    /\ Len(inbuf) <= MaxPending
    /\ \E chunk \in Chunks : inbuf' = inbuf \o chunk
    /\ sends' = sends + 1
    /\ UNCHANGED <<pc, request, keepalive, want, eof, reset, written, drained,
                   closed, raised, exc, calls, replies, iter, nread, fed>>

\* the peer closes its sending side
PeerEOF ==
    /\ ~eof /\ ~reset /\ ~closed /\ pc # "done"
    /\ UNCHANGED <<BLANK_RESPONSE, conn>>
    /\ eof' = TRUE
    /\ UNCHANGED <<pc, request, keepalive, want, inbuf, reset, written, drained,
                   closed, raised, exc, calls, replies, iter, nread, sends,
                   fed>>

\* the peer resets the connection
PeerReset ==
    /\ ~reset /\ pc # "done"
    /\ UNCHANGED <<BLANK_RESPONSE, conn>>
    /\ reset' = TRUE
    /\ UNCHANGED <<pc, request, keepalive, want, inbuf, eof, written, drained,
                   closed, raised, exc, calls, replies, iter, nread, sends,
                   fed>>

(***************************************************************************)
(* Actions: handle_connection, from one await to the next.                 *)
(***************************************************************************)
\* except ConnectionResetError: return
ResetCaught ==
    /\ pc' = "done"
    /\ UNCHANGED <<request, keepalive, want, inbuf, eof, reset, written, drained,
                   closed, raised, exc, calls, replies, iter, nread, sends,
                   fed>>

\* an exception leaves handle_connection
Escapes ==
    /\ pc' = "done"
    /\ raised' = Some("ConnectionResetError")
    /\ UNCHANGED <<request, keepalive, want, inbuf, eof, reset, written, drained,
                   closed, exc, calls, replies, iter, nread, sends, fed>>

\* the next item of "async for item in read_stream" (readline)
ReadLine ==
    /\ pc = "readline"
    /\ UNCHANGED <<BLANK_RESPONSE, conn>>
    /\ LET nl   == IndexOf(inbuf, "\n")
           item == IF nl > 0 THEN SubSeq(inbuf, 1, nl) ELSE inbuf
           rest == SubSeq(inbuf, Len(item) + 1, Len(inbuf))
       IN  IF reset THEN ResetCaught
           ELSE /\ nl > 0 \/ eof
                /\ inbuf' = rest
                /\ nread' = IF item = "" THEN nread ELSE nread + 1
                /\ fed' = IF item = "" \/ item = "\r\n" THEN fed
                            ELSE Append(fed, item)
                /\ Become(after_item(Cur, item, eof /\ rest = ""))
                /\ UNCHANGED <<eof, reset, drained, raised, replies, iter, sends>>

\* await read_stream.read(int(content_length)), _set_body and the call of
\* on_request
ReadBody ==
    /\ pc = "readbody"
    /\ UNCHANGED <<BLANK_RESPONSE, conn>>
    /\ IF reset THEN ResetCaught
       ELSE LET data == read(inbuf, want)
                req  == [request EXCEPT !._body = data]
            IN  /\ want = 0 \/ inbuf # "" \/ eof
                /\ inbuf' = SubSeq(inbuf, Len(data) + 1, Len(inbuf))
                /\ nread' = nread + 1
                /\ Become([Cur EXCEPT !.request = req, !.calls = Append(@, req),
                                      !.pc = "handler"])
                /\ UNCHANGED <<eof, reset, drained, raised, replies, iter, sends,
                               fed>>

\* on_request returns: the response is written and the loop goes on or breaks
HandlerReturn ==
    /\ pc = "handler"
    /\ UNCHANGED <<BLANK_RESPONSE, conn>>
    /\ \E response \in HandlerResults :
          /\ replies' = Append(replies, response)
          /\ Become(after_response(write_response(Cur, response)))
    /\ UNCHANGED <<inbuf, eof, reset, drained, raised, iter, nread, sends, fed>>

\* a variant that builds the Request once, before the loop
Drain_keeping_request ==
    /\ pc = "drain"
    /\ UNCHANGED <<BLANK_RESPONSE, conn>>
    /\ IF reset THEN ResetCaught
       ELSE /\ drained' = Len(written)
            /\ pc' = "readline"
            /\ fed' = <<>>
            /\ iter' = iter + 1
            /\ UNCHANGED <<request, keepalive, want, inbuf, eof, reset, written,
                           closed, raised, exc, calls, replies, nread, sends>>

\* await write_stream.drain() at the end of an iteration, then the next
\* iteration's fresh Request
Drain ==
    /\ pc = "drain"
    /\ UNCHANGED <<BLANK_RESPONSE, conn>>
    /\ IF reset THEN ResetCaught
       ELSE /\ drained' = Len(written)
            /\ pc' = "readline"
            /\ request' = Request
            /\ fed' = <<>>
            /\ iter' = iter + 1
            /\ UNCHANGED <<keepalive, want, inbuf, eof, reset, written, closed,
                           raised, exc, calls, replies, nread, sends>>

\* await write_stream.drain() in the HTTPException handler, then "Clean up"
ErrDrain ==
    /\ pc = "err_drain"
    /\ UNCHANGED <<BLANK_RESPONSE, conn>>
    /\ IF reset THEN Escapes
       ELSE /\ drained' = Len(written)
            /\ Become(cleanup(Cur))
            /\ UNCHANGED <<inbuf, eof, reset, raised, replies, iter, nread, sends,
                           fed>>

\* await write_stream.wait_closed()
WaitClosed ==
    /\ pc = "wait_closed"
    /\ UNCHANGED <<BLANK_RESPONSE, conn>>
    /\ IF reset THEN Escapes
       ELSE /\ pc' = "done"
            /\ drained' = Len(written)
            /\ UNCHANGED <<request, keepalive, want, inbuf, eof, reset, written,
                           closed, raised, exc, calls, replies, iter, nread, sends,
                   fed>>

Next ==
    \/ PeerSend
    \/ PeerEOF
    \/ PeerReset
    \/ ReadLine
    \/ ReadBody
    \/ HandlerReturn
    \/ Drain
    \/ ErrDrain
    \/ WaitClosed

Spec == Init /\ [][Next]_vars

(***************************************************************************)
(* Request.consume on its own: one Request is given lines until a call     *)
(* raises.                                                                 *)
(***************************************************************************)
\* the lines a Request may be given: request lines, the HTTP/2 preface,
\* header lines with names in several spellings and values with and without
\* white space around them, and lines that are neither
Lines ==
    {"GET / HTTP/1.1\r\n",
     "POST /a?b=1 HTTP/1.0\r\n",
     "PRI * HTTP/2.0\r\n",
     "Name:v\r\n",
     "Name:  v  \r\n",
     "NAME: w\r\n",
     "name:\tv w\t\r\n",
     "Other: x\r\n",
     "Other:\r\n",
     "GET:/ HTTP/1.1\r\n",
     "no colon\r\n"}

\* request.consume(line)
Consume ==
    /\ exc = None
    /\ UNCHANGED <<BLANK_RESPONSE, conn>>
    /\ Len(fed) < MaxLines
    /\ \E line \in Lines :
          LET r == consume(request, line) IN
          /\ request' = r.request
          /\ exc' = r.exc
          /\ fed' = Append(fed, line)
    /\ UNCHANGED <<pc, keepalive, want, inbuf, eof, reset, written, drained,
                   closed, raised, calls, replies, iter, nread, sends>>

ConsumeNext == Consume

ConsumeSpec == Init /\ [][ConsumeNext]_vars

(***************************************************************************)
(* Several connections served concurrently by Ghost: each runs its own     *)
(* handle_connection, they interleave at the awaits, and on_request may    *)
(* return the one BLANK_RESPONSE object to all of them.                    *)
(***************************************************************************)
\* the requests a connection may send, line by line
Requests ==
    {<<"GET / HTTP/1.1\r\n", "\r\n">>,
     <<"GET / HTTP/1.1\r\n", "connection: keep-alive\r\n", "\r\n">>,
     <<"GET / HTTP/1.1\r\n", "Connection: close\r\n", "\r\n">>}

\* the line loop run over lines that are all at hand
RECURSIVE after_items(_, _)
after_items(o, ls) ==
    IF ls = <<>> THEN o ELSE after_items(after_item(o, Head(ls), FALSE), Tail(ls))

\* the variables of the single connection of Spec
single == <<pc, request, keepalive, want, inbuf, eof, reset, written, drained,
            closed, raised, exc, calls, replies, iter, nread, sends, fed>>

\* connection c reads the lines of a request up to the await of on_request
ConnRequest(c) ==
    /\ conn[c].pc = "readline"
    /\ Len(conn[c].calls) < MaxRequests
    /\ \E ls \in Requests :
          conn' = [conn EXCEPT ![c] = after_items([@ EXCEPT !.request = Request], ls)]
    /\ UNCHANGED <<BLANK_RESPONSE, single>>

\* connection c finds the end of input where a request would start
ConnEOF(c) ==
    /\ conn[c].pc = "readline"
    /\ conn' = [conn EXCEPT ![c] = after_item([@ EXCEPT !.request = Request], "", TRUE)]
    /\ UNCHANGED <<BLANK_RESPONSE, single>>

\* on_request returns to connection c, BLANK_RESPONSE itself or a Response
\* of its own; its headers are updated in place and it is written
ConnHandlerReturn(c) ==
    /\ conn[c].pc = "handler"
    /\ \E shared \in BOOLEAN :
          LET response == IF shared THEN BLANK_RESPONSE ELSE Response(204, "", <<>>)
              o == after_response(write_response(conn[c], Some(response)))
          IN  /\ conn' = [conn EXCEPT ![c] = [o EXCEPT !.replies =
                            Append(@, IF shared THEN "BLANK_RESPONSE" ELSE "Response")]]
              /\ BLANK_RESPONSE' = IF shared
                                   THEN with_connection(response, conn[c].keepalive)
                                   ELSE BLANK_RESPONSE
    /\ UNCHANGED single

\* await write_stream.drain() of connection c
ConnDrain(c) ==
    /\ conn[c].pc = "drain"
    /\ conn' = [conn EXCEPT ![c].pc = "readline"]
    /\ UNCHANGED <<BLANK_RESPONSE, single>>

\* await write_stream.wait_closed() of connection c
ConnWaitClosed(c) ==
    /\ conn[c].pc = "wait_closed"
    /\ conn' = [conn EXCEPT ![c].pc = "done"]
    /\ UNCHANGED <<BLANK_RESPONSE, single>>

ConcNext ==
    \/ \E c \in Connections : ConnRequest(c)
    \/ \E c \in Connections : ConnEOF(c)
    \/ \E c \in Connections : ConnHandlerReturn(c)
    \/ \E c \in Connections : ConnDrain(c)
    \/ \E c \in Connections : ConnWaitClosed(c)

ConcSpec == Init /\ [][ConcNext]_vars

(***************************************************************************)
(* How a peer reads the bytes of one response.                             *)
(***************************************************************************)
\* the status line and the header lines: the lines up to the blank line
RECURSIVE HeadLines(_)
HeadLines(b) ==
    LET nl   == IndexOf(b, "\n")
        line == SubSeq(b, 1, nl - 2)
    IN  IF nl = 0 \/ line = "" THEN <<>>
        ELSE <<line>> \o HeadLines(SubSeq(b, nl + 1, Len(b)))

RECURSIVE HeadLength(_)
HeadLength(lines) ==
    IF lines = <<>> THEN 2 ELSE Len(Head(lines)) + 2 + HeadLength(Tail(lines))

StartsWith(s, prefix) ==
    Len(s) >= Len(prefix) /\ SubSeq(s, 1, Len(prefix)) = prefix

\* the response read from the bytes b: its status line, its header lines
\* and its body
Parse(b) ==
    LET lines == HeadLines(b) IN
    [status |-> lines[1],
     headers |-> Tail(lines),
     body |-> SubSeq(b, HeadLength(lines) + 1, Len(b))]

\* the header lines of the parsed response r with the given name: how many
\* there are, and the set of their values
HeaderIndexes(r, name) ==
    {i \in 1..Len(r.headers) : StartsWith(r.headers[i], name \o ": ")}

HeaderCount(r, name) == Cardinality(HeaderIndexes(r, name))

HeaderValues(r, name) ==
    {SubSeq(r.headers[i], Len(name) + 3, Len(r.headers[i])) :
        i \in HeaderIndexes(r, name)}

\* the response written for the i-th handler result (it is not None)
Reply(i) == Parse(written[Cardinality({j \in 1..i : replies[j] # None})])

\* the response written last: the error response, once an HTTPException
\* was caught
LastWritten == Parse(written[Len(written)])

ConnectionOf(req) == DictGet(req.headers, "connection")

\* the socket is closed: write_stream.close() was called, or the connection
\* was lost to a reset (a lost connection's transport is closed already)
SocketClosed == closed \/ reset

LoopLeft == pc \in {"err_drain", "wait_closed", "done"}

(***************************************************************************)
(* The keep-alive decision.                                                *)
(***************************************************************************)
\* on_request returns in this step
Replied == Len(replies') = Len(replies) + 1

C2_CloseIsHonoured ==
    /\ [](\A i \in 1..Len(replies) :
             ConnectionOf(calls[i]) = Some("close")
                => /\ i = Len(calls)
                   /\ replies[i] # None
                         => "close" \in HeaderValues(Reply(i), "connection"))
    /\ [](exc # None /\ ConnectionOf(request) = Some("close")
             => "close" \in HeaderValues(LastWritten, "connection"))
    /\ [][Len(replies) > 0 /\ ConnectionOf(calls[Len(replies)]) = Some("close")
             => nread' = nread /\ calls' = calls]_vars

\* a request with "Connection: close" was answered and the connection ended
C2_Witness ==
    /\ Len(replies) = 1
    /\ ConnectionOf(calls[1]) = Some("close")
    /\ replies[1] # None
    /\ pc = "done"

(***************************************************************************)
(* Protocol errors and teardown.                                           *)
(***************************************************************************)
\* C3: once an HTTPException was raised for the request of the current
\* iteration, the handler was not called for that request, exactly one
\* error response was written, with the error's status code and message and
\* with the single header "connection: close", the loop was left for good
\* (nothing more is read, dispatched or written) and the connection ends
\* with the socket closed.
C3_ProtocolErrorEndsConnection ==
    /\ [](exc # None
            => /\ Len(calls) = iter - 1
               /\ Len(replies) = Len(calls)
               /\ Len(written) = Cardinality({j \in 1..Len(replies) : replies[j] # None}) + 1
               /\ LET r == LastWritten IN
                  /\ r.status = "HTTP/1.1 " \o str(exc[1].status_code)
                  /\ r.body = exc[1].message
                  /\ HeaderCount(r, "connection") = 1
                  /\ HeaderValues(r, "connection") = {"close"}
               /\ LoopLeft
               /\ pc = "done" => SocketClosed)
    /\ [][exc # None
            => /\ nread' = nread
               /\ calls' = calls /\ replies' = replies
               /\ written' = written /\ iter' = iter /\ exc' = exc]_vars

\* a keep-alive request with a bad content-length got its error response
\* and the socket was closed
C3_Witness ==
    /\ exc = Some(HTTPException(400, "Invalid content length provided."))
    /\ keepalive
    /\ pc = "done"
    /\ closed

\* C4, as stated: write_stream.close() is called on every exit path of
\* handle_connection, a peer reset included.
C4_CloseAlwaysCalled == pc = "done" => closed

\* C4, amended: write_stream.close() is called on every exit path except a
\* peer reset; when the connection was reset handle_connection may end
\* without having called it.  No connection ends with its socket open.
C4_CloseUnlessReset == pc = "done" => (closed \/ reset)

\* handle_connection ended on end-of-input, without a reset, socket closed
C4_Witness == pc = "done" /\ ~reset /\ closed /\ eof /\ exc = None /\ calls = <<>>

(***************************************************************************)
(* Bodies and resets.                                                      *)
(***************************************************************************)
\* C5: the handler is only ever called with a body of exactly the declared
\* content-length.
C5_BodyHasDeclaredLength ==
    \A i \in 1..Len(calls) :
        LET content_length == DictGet(calls[i].headers, "content-length") IN
        content_length # None => Len(calls[i]._body) = int(content_length[1])

\* C6: no ConnectionResetError leaves handle_connection.
C6_ResetNeverEscapes == raised = None

(***************************************************************************)
(* The HTTP/2 preface.                                                     *)
(***************************************************************************)
Http2Exception == HTTPException(505, "Shadow does not support HTTP/2.")

\* C7: when the line "PRI * HTTP/2.0" is read while no declaration has been
\* parsed in the iteration, consume raises the 505 error (not the 400 of a
\* malformed declaration), a 505 response is written, the handler is not
\* called for that iteration and the connection ends with the socket closed.
C7_Http2PrefaceRejected ==
    /\ [][/\ pc = "readline" /\ ~reset
          /\ request.declaration.method = None
          /\ StartsWith(inbuf, "PRI * HTTP/2.0\r\n")
          /\ nread' = nread + 1
          => /\ exc' = Some(Http2Exception)
             /\ Len(written') = Len(written) + 1
             /\ Parse(written'[Len(written')]).status = "HTTP/1.1 505"
             /\ calls' = calls
             /\ pc' = "err_drain"]_vars
    /\ [](exc = Some(Http2Exception)
             => /\ Len(calls) = iter - 1
                /\ LoopLeft
                /\ pc = "done" => SocketClosed)

\* the preface came as the first line of the second iteration of a
\* keep-alive connection; the 505 response went out and the socket was closed
C7_Witness ==
    /\ exc = Some(Http2Exception)
    /\ iter = 2
    /\ Len(calls) = 1
    /\ drained = Len(written)
    /\ pc = "done"
    /\ closed

(***************************************************************************)
(* Sequential processing.                                                  *)
(***************************************************************************)
\* C8: requests of one connection are handled one at a time: at most one
\* handler call is outstanding, and whenever the loop is reading the lines
\* or the body of a request, the handler has returned for every earlier
\* request of the connection and every response written so far has been
\* flushed by a drain.
C8_OneRequestAtATime ==
    /\ Len(calls) - Len(replies) \in {0, 1}
    /\ Len(calls) - Len(replies) = 1 <=> pc = "handler"
    /\ pc \in {"readline", "readbody"}
          => /\ Len(calls) = iter - 1
             /\ Len(replies) = iter - 1
             /\ drained = Len(written)

\* the lines of a second request are being read after the first response
\* was written and flushed
C8_Witness ==
    /\ pc = "readline"
    /\ iter = 2
    /\ request.declaration.method # None
    /\ Len(written) = 1
    /\ drained = 1

(***************************************************************************)
(* The headers the core owns.                                              *)
(***************************************************************************)
\* C9: the bytes written for a Response the handler returned (to a request
\* with a declaration) have exactly one content-length line, whose value is
\* the decimal length of the Response's body, and exactly one server line,
\* whose value is the version token.
C9_OneContentLength ==
    \A i \in 1..Len(replies) :
        replies[i] # None /\ calls[i].declaration.method # None
           => LET r == Reply(i) IN
              /\ HeaderCount(r, "content-length") = 1
              /\ HeaderValues(r, "content-length") = {str(Len(replies[i][1].body))}
              /\ HeaderCount(r, "server") = 1
              /\ HeaderValues(r, "server") = {__version__}

\* C10: the response written for a handler result (to a request with a
\* declaration) has a single connection line, "keep-alive" when the loop
\* goes on and "close" when it ends.
C10_OneConnectionHeader ==
    [][/\ Replied
       /\ replies'[Len(replies')] # None
       /\ request.declaration.method # None
       => LET r == Parse(written'[Len(written')]) IN
          /\ HeaderCount(r, "connection") = 1
          /\ HeaderValues(r, "connection")
                = {IF pc' = "drain" THEN "keep-alive" ELSE "close"}]_vars

(***************************************************************************)
(* End of input.                                                           *)
(***************************************************************************)
\* C11: when the peer has closed its sending side and no byte of a further
\* request is at hand at the start of an iteration (of the first one or of
\* one after completed keep-alive exchanges), the loop ends silently: no
\* bytes are written, no HTTPException is raised, on_request is not
\* called, and write_stream.close() is called.
C11_SilentEndAtEOF ==
    [][/\ pc = "readline" /\ fed = <<>> /\ request = Request
       /\ eof /\ inbuf = "" /\ ~reset
       /\ pc' # pc
       => /\ written' = written
          /\ exc' = exc
          /\ calls' = calls
          /\ replies' = replies
          /\ closed'
          /\ pc' = "wait_closed"]_vars

\* a keep-alive exchange of three lines was completed, then the peer closed
\* and the connection ended with nothing more read, written or dispatched
C11_Witness ==
    /\ pc = "done"
    /\ iter = 2
    /\ nread = 3
    /\ eof /\ ~reset
    /\ fed = <<>>
    /\ Len(calls) = 1
    /\ Len(written) = 1
    /\ exc = None /\ raised = None
    /\ closed

\* the step reads the blank line that ends a header section
BlankLineRead == pc = "readline" /\ nread' = nread + 1 /\ fed' = fed

(***************************************************************************)
(* The content-length check.                                               *)
(***************************************************************************)
\* C12: when the header section of a request (with a declaration) ends and
\* its content-length value is not a decimal number, the request fails
\* with 400 "Invalid content length provided.": the error response is
\* written, nothing beyond the blank line is read, on_request is not
\* called and the loop is left for the teardown.
C12_InvalidContentLengthRejected ==
    [][/\ BlankLineRead
       /\ request.declaration.method # None
       /\ DictGet(request.headers, "content-length") # None
       /\ ~isnumeric(DictGet(request.headers, "content-length")[1])
       => /\ exc' = Some(HTTPException(400, "Invalid content length provided."))
          /\ Len(written') = Len(written) + 1
          /\ StartsWith(written'[Len(written')], "HTTP/1.1 400\r\n")
          /\ inbuf' = SubSeq(inbuf, 3, Len(inbuf))
          /\ calls' = calls
          /\ pc' = "err_drain"]_vars

(***************************************************************************)
(* What reaches the handler.                                               *)
(***************************************************************************)
\* C15: on_request is only ever called with a Request whose declaration
\* was parsed: its method, uri and version are not None.
C15_HandlerGetsDeclaration ==
    \A i \in 1..Len(calls) :
        /\ calls[i].declaration.method # None
        /\ calls[i].declaration.uri # None
        /\ calls[i].declaration.version # None

\* C16: a request whose header section was completed (a declaration, then
\* the blank line) is not dropped: the step that reads its blank line goes
\* on to the handler, to the body read or to an error response, also when
\* the peer has closed its sending side; it never ends the loop silently.
C16_CompletedRequestNotDropped ==
    [][/\ BlankLineRead
       /\ request.declaration.method # None
       => /\ pc' \in {"handler", "readbody", "err_drain"}
          /\ pc' = "handler" => calls' = Append(calls, request)
          /\ pc' = "err_drain" => Len(written') = Len(written) + 1]_vars

(***************************************************************************)
(* One Request per iteration.                                              *)
(***************************************************************************)
\* the Request that results from giving the lines, in order, to a new one
RECURSIVE Consumed(_)
Consumed(ls) ==
    IF ls = <<>> THEN Request
    ELSE consume(Consumed(SubSeq(ls, 1, Len(ls) - 1)), ls[Len(ls)]).request

\* what an iteration works with is what its own lines give
FromOwnLines ==
    /\ pc \in {"readline", "readbody", "handler", "drain"}
          => [request EXCEPT !._body = ""] = Consumed(fed)
    /\ pc \in {"readline", "readbody"} => request._body = ""
    /\ pc \in {"readbody", "handler", "drain"}
          => keepalive
               = (DictGet(Consumed(fed).headers, "connection") = Some("keep-alive"))
    /\ pc = "readbody"
          => Some(str(want)) = DictGet(Consumed(fed).headers, "content-length")

\* C19: every iteration of the connection loop starts from a new Request
\* (declaration None, no headers, empty body), and what an iteration works
\* with comes from its own lines alone: its Request is the one its lines
\* give on a new Request, and its keep-alive decision and the length of
\* its body read are those of the headers among these lines.
C19_FreshRequestPerIteration ==
    /\ [][iter' # iter
           => /\ request'.declaration = Declaration(None, None, None)
              /\ request'.headers = <<>>
              /\ request'._body = ""]_vars
    /\ []FromOwnLines

\* a keep-alive request was answered; the second request of the connection
\* has no header and is dispatched without the first one's
C19_Witness ==
    /\ pc = "handler"
    /\ iter = 2
    /\ Len(calls) = 2
    /\ ConnectionOf(calls[1]) = Some("keep-alive")
    /\ calls[2].declaration.method # None
    /\ calls[2].headers = <<>>
    /\ calls[2]._body = ""
    /\ ~keepalive

(***************************************************************************)
(* The header lines of a Request.                                          *)
(***************************************************************************)
\* optional white space: space and horizontal tab
OWS == {" ", "\t"}

RECURSIVE StripLeft(_)
StripLeft(s) == IF s # "" /\ Head(s) \in OWS THEN StripLeft(Tail(s)) ELSE s

RECURSIVE StripRight(_)
StripRight(s) ==
    IF s # "" /\ Ch(s, Len(s)) \in OWS
    THEN StripRight(SubSeq(s, 1, Len(s) - 1)) ELSE s

\* a line without its CRLF, and what follows its first colon
Processed(line) == SubSeq(line, 1, Len(line) - 2)

AfterColon(line) ==
    SubSeq(Processed(line), IndexOf(line, ":") + 1, Len(Processed(line)))

\* the last line given to consume was taken as a header line and stored
HeaderStored ==
    /\ request.declaration.method # None
    /\ exc' = None
    /\ fed' # fed /\ fed' # <<>>

\* C13: the value stored for an accepted header line is what follows the
\* colon with all leading and all trailing optional white space removed,
\* so that "Name:  v  " stores the value "Name:v" stores.
C13_ValueIsStripped ==
    [][HeaderStored
       => LET line == fed'[Len(fed')]
              name == SubSeq(line, 1, IndexOf(line, ":") - 1)
          IN  DictGet(request'.headers, lower(name))
                 = Some(StripRight(StripLeft(AfterColon(line))))]_vars

\* the lines given to the Request that were accepted as header lines (the
\* first line is the declaration), with the names and values matched
Accepted == {i \in 2..Len(fed) : HTTP_HEADER_LINE(Processed(fed[i])) # None}

NameSent(i) == HTTP_HEADER_LINE(Processed(fed[i]))[1]

ValueSent(i) == HTTP_HEADER_LINE(Processed(fed[i]))[2]

SameName(a, b) == lower(a) = lower(b)

\* C14: after any sequence of accepted header lines of one request, every
\* key of Request.headers is lowercase, there is exactly one entry for each
\* name sent, names compared without regard to case, and the entry holds
\* the value of the last line sent with that name.
C14_HeadersLowercaseLastWins ==
    LET h == request.headers IN
    /\ \A e \in 1..Len(h) : \A c \in 1..Len(h[e][1]) : Ch(h[e][1], c) \notin Range(UPPER)
    /\ \A e, f \in 1..Len(h) : SameName(h[e][1], h[f][1]) => e = f
    /\ \A e \in 1..Len(h) : \E i \in Accepted : SameName(h[e][1], NameSent(i))
    /\ \A i \in Accepted :
          /\ \E e \in 1..Len(h) : SameName(h[e][1], NameSent(i))
          /\ (\A j \in Accepted : j > i => ~SameName(NameSent(j), NameSent(i)))
                => \E e \in 1..Len(h) :
                      SameName(h[e][1], NameSent(i)) /\ h[e][2] = ValueSent(i)

\* one name was sent twice, in two spellings and with two values
C14_Witness ==
    /\ fed = <<"GET / HTTP/1.1\r\n", "Name:v\r\n", "NAME: w\r\n">>
    /\ request.headers = << <<"name", "w">> >>
    /\ exc = None

(***************************************************************************)
(* The declaration of a Request.                                           *)
(***************************************************************************)
\* C18: once consume has set the declaration, no later call changes it:
\* every further line is handled as a header line, stored under its
\* lowercased name or rejected with the 400 of a malformed header line,
\* also a line shaped like a request line or the HTTP/2 preface.
C18_DeclarationSetOnce ==
    [][request.declaration.method # None /\ fed' # fed /\ fed' # <<>>
       => LET processed_line == Processed(fed'[Len(fed')])
              header_data    == HTTP_HEADER_LINE(processed_line)
          IN  /\ request'.declaration = request.declaration
              /\ request'._body = request._body
              /\ IF header_data = None
                 THEN /\ request'.headers = request.headers
                      /\ exc' = Some(HTTPException(400,
                                   "Malformed HTTP header line was sent: "
                                       \o bytes_repr(processed_line)))
                 ELSE /\ exc' = None
                      /\ DictGet(request'.headers, lower(header_data[1]))
                             = Some(header_data[2])]_vars

\* the HTTP/2 preface came after the declaration and was rejected as a
\* malformed header line
C18_Witness ==
    /\ fed = <<"GET / HTTP/1.1\r\n", "PRI * HTTP/2.0\r\n">>
    /\ request.declaration = Declaration(Some("GET"), Some("/"), Some("1.1"))
    /\ exc # None
    /\ exc[1].status_code = 400

(***************************************************************************)
(* The shared Response object.                                             *)
(***************************************************************************)
\* C17: whatever the interleaving of the connections at their awaits, and
\* also when on_request returns the one BLANK_RESPONSE object to several of
\* them, every response written on a connection has a single connection
\* line and its value is the one decided from that connection's own
\* request: "keep-alive" if the request asked for it, "close" otherwise.
C17_OwnConnectionValue ==
    \A c \in Connections :
        /\ Len(conn[c].written) = Len(conn[c].replies)
        /\ \A i \in 1..Len(conn[c].written) :
              LET r == Parse(conn[c].written[i]) IN
              /\ HeaderCount(r, "connection") = 1
              /\ HeaderValues(r, "connection")
                    = {IF ConnectionOf(conn[c].calls[i]) = Some("keep-alive")
                       THEN "keep-alive" ELSE "close"}

\* both connections were answered with BLANK_RESPONSE, the first asking for
\* keep-alive and the second, answered after it, not
C17_Witness ==
    /\ conn[1].replies = <<"BLANK_RESPONSE">>
    /\ conn[2].replies = <<"BLANK_RESPONSE">>
    /\ ConnectionOf(conn[1].calls[1]) = Some("keep-alive")
    /\ ConnectionOf(conn[2].calls[1]) # Some("keep-alive")
    /\ conn[1].pc = "drain"
    /\ BLANK_RESPONSE.headers = << <<"connection", "close">> >>

====
